---- MODULE Spec2Model ----
(***************************************************************************)
(* Two-Way substring search (src/memmem/twoway.rs): construction of the    *)
(* searcher (suffix extraction, critical position, shift regime, byteset)  *)
(* and the forward and reverse search loops.                               *)
(*                                                                         *)
(* Byte strings are sequences of naturals below 256.  The source indexes   *)
(* from 0; B(s, i) reads index i of s in the source's numbering.           *)
(***************************************************************************)
EXTENDS Integers, Sequences, FiniteSets, TLC

\* ------------------------------------------------------------------ bounds
MaxNeedle == 4
MaxHay == 4
LongLen == 17
MaxNewNeedle == 7
MaxGap == 2
MaxCostNeedle == 5
MaxCostHay == 8
MaxLiveNeedle == 3
MaxLiveHay == 5

\* Bytes the needles and haystacks are drawn from; 65 and 1 share a residue
\* modulo 64, so the approximate byteset has false positives.
Alphabet == {1, 2, 65}

\* ---------------------------------------------------------------- helpers
None == -1

B(s, i) == s[i + 1]

Max(a, b) == IF a >= b THEN a ELSE b

Min(a, b) == IF a <= b THEN a ELSE b

\* s[a..b) in the source's numbering
Slice(s, a, b) == SubSeq(s, a + 1, b)

SeqsUpTo(S, n) == UNION { [1..k -> S] : k \in 0..n }

\* SuffixCmp ordering every kind as Minimal.
SuffixCmp_AlwaysMinimal(kind, current, candidate) ==
    IF candidate < current THEN "Accept"
    ELSE IF candidate > current THEN "Skip" ELSE "Push"

\* ------------------------------------------------------ SuffixKind::cmp
SuffixCmp(kind, current, candidate) ==
    IF kind = "Minimal"
    THEN IF candidate < current THEN "Accept"
         ELSE IF candidate > current THEN "Skip" ELSE "Push"
    ELSE IF candidate > current THEN "Accept"
         ELSE IF candidate < current THEN "Skip" ELSE "Push"

\* ------------------------------------------------------ Suffix::forward
RECURSIVE SuffixForwardLoop(_, _, _, _, _, _)
SuffixForwardLoop(needle, kind, pos, period, candidate_start, offset) ==
    IF ~(candidate_start + offset < Len(needle))
    THEN [pos |-> pos, period |-> period]
    ELSE LET current == B(needle, pos + offset)
             candidate == B(needle, candidate_start + offset)
             ord == SuffixCmp(kind, current, candidate)
         IN  IF ord = "Accept"
             THEN SuffixForwardLoop(needle, kind, candidate_start, 1,
                                    candidate_start + 1, 0)
             ELSE IF ord = "Skip"
             THEN SuffixForwardLoop(needle, kind, pos,
                                    (candidate_start + offset + 1) - pos,
                                    candidate_start + offset + 1, 0)
             ELSE IF offset + 1 = period
             THEN SuffixForwardLoop(needle, kind, pos, period,
                                    candidate_start + period, 0)
             ELSE SuffixForwardLoop(needle, kind, pos, period,
                                    candidate_start, offset + 1)

\* SuffixForward taking the first candidate at index 2.
SuffixForward_FromTwo(needle, kind) ==
    SuffixForwardLoop(needle, kind, 0, 1, 2, 0)

SuffixForward(needle, kind) == SuffixForwardLoop(needle, kind, 0, 1, 1, 0)

\* ------------------------------------------------------ Suffix::reverse
RECURSIVE SuffixReverseLoop(_, _, _, _, _, _)
SuffixReverseLoop(needle, kind, pos, period, candidate_start, offset) ==
    IF ~(offset < candidate_start)
    THEN [pos |-> pos, period |-> period]
    ELSE LET current == B(needle, pos - offset - 1)
             candidate == B(needle, candidate_start - offset - 1)
             ord == SuffixCmp(kind, current, candidate)
         IN  IF ord = "Accept"
             THEN SuffixReverseLoop(needle, kind, candidate_start, 1,
                                    candidate_start - 1, 0)
             ELSE IF ord = "Skip"
             THEN SuffixReverseLoop(needle, kind, pos,
                                    pos - (candidate_start - (offset + 1)),
                                    candidate_start - (offset + 1), 0)
             ELSE IF offset + 1 = period
             THEN SuffixReverseLoop(needle, kind, pos, period,
                                    candidate_start - period, 0)
             ELSE SuffixReverseLoop(needle, kind, pos, period,
                                    candidate_start, offset + 1)

\* SuffixReverse starting from the prefix that lacks the last byte.
SuffixReverse_FromSecond(needle, kind) ==
    IF Len(needle) = 1
    THEN [pos |-> Len(needle), period |-> 1]
    ELSE SuffixReverseLoop(needle, kind, Len(needle) - 1, 1,
                           Len(needle) - 2, 0)

\* SuffixReverse with the initial suffix of Suffix::forward on the early
\* return for a needle of one byte.
SuffixReverse_ForwardInit(needle, kind) ==
    IF Len(needle) = 1
    THEN [pos |-> 0, period |-> 1]
    ELSE SuffixReverseLoop(needle, kind, Len(needle), 1, Len(needle) - 1, 0)

SuffixReverse(needle, kind) ==
    IF Len(needle) = 1
    THEN [pos |-> Len(needle), period |-> 1]
    ELSE SuffixReverseLoop(needle, kind, Len(needle), 1, Len(needle) - 1, 0)

\* ------------------------------------------- util::is_suffix / is_prefix
\* is_suffix(haystack, needle): needle is a suffix of haystack.
is_suffix(hay, ndl) ==
    /\ Len(ndl) <= Len(hay)
    /\ Slice(hay, Len(hay) - Len(ndl), Len(hay)) = ndl

\* is_prefix(haystack, needle): needle is a prefix of haystack.
is_prefix(hay, ndl) ==
    /\ Len(ndl) <= Len(hay)
    /\ Slice(hay, 0, Len(ndl)) = ndl

\* ShiftForward taking the critical position alone as the large shift.
ShiftForward_LargeCrit(needle, period_lower_bound, critical_pos) ==
    LET large == critical_pos
        u == Slice(needle, 0, critical_pos)
        v == Slice(needle, critical_pos, Len(needle))
    IN  IF critical_pos * 2 >= Len(needle)
        THEN [kind |-> "Large", val |-> large]
        ELSE IF ~is_suffix(Slice(v, 0, period_lower_bound), u)
        THEN [kind |-> "Large", val |-> large]
        ELSE [kind |-> "Small", val |-> period_lower_bound]

\* ShiftForward with the arguments of is_suffix exchanged.
ShiftForward_Swapped(needle, period_lower_bound, critical_pos) ==
    LET large == Max(critical_pos, Len(needle) - critical_pos)
        u == Slice(needle, 0, critical_pos)
        v == Slice(needle, critical_pos, Len(needle))
    IN  IF critical_pos * 2 >= Len(needle)
        THEN [kind |-> "Large", val |-> large]
        ELSE IF ~is_suffix(u, Slice(v, 0, period_lower_bound))
        THEN [kind |-> "Large", val |-> large]
        ELSE [kind |-> "Small", val |-> period_lower_bound]

\* ShiftForward without the is_suffix test.
ShiftForward_NoSuffixTest(needle, period_lower_bound, critical_pos) ==
    LET large == Max(critical_pos, Len(needle) - critical_pos)
    IN  IF critical_pos * 2 >= Len(needle)
        THEN [kind |-> "Large", val |-> large]
        ELSE [kind |-> "Small", val |-> period_lower_bound]

\* ShiftForward with the is_suffix test inverted.
ShiftForward_Inverted(needle, period_lower_bound, critical_pos) ==
    LET large == Max(critical_pos, Len(needle) - critical_pos)
        u == Slice(needle, 0, critical_pos)
        v == Slice(needle, critical_pos, Len(needle))
    IN  IF critical_pos * 2 >= Len(needle)
        THEN [kind |-> "Large", val |-> large]
        ELSE IF is_suffix(Slice(v, 0, period_lower_bound), u)
        THEN [kind |-> "Large", val |-> large]
        ELSE [kind |-> "Small", val |-> period_lower_bound]

\* ------------------------------------------------------- Shift::forward
ShiftForward(needle, period_lower_bound, critical_pos) ==
    LET large == Max(critical_pos, Len(needle) - critical_pos)
        u == Slice(needle, 0, critical_pos)
        v == Slice(needle, critical_pos, Len(needle))
    IN  IF critical_pos * 2 >= Len(needle)
        THEN [kind |-> "Large", val |-> large]
        ELSE IF ~is_suffix(Slice(v, 0, period_lower_bound), u)
        THEN [kind |-> "Large", val |-> large]
        ELSE [kind |-> "Small", val |-> period_lower_bound]

\* ShiftReverse taking the whole needle length as the large shift.
ShiftReverse_LargeLen(needle, period_lower_bound, critical_pos) ==
    LET large == Len(needle)
        v == Slice(needle, 0, critical_pos)
        u == Slice(needle, critical_pos, Len(needle))
    IN  IF (Len(needle) - critical_pos) * 2 >= Len(needle)
        THEN [kind |-> "Large", val |-> large]
        ELSE IF ~is_prefix(Slice(v, Len(v) - period_lower_bound, Len(v)), u)
        THEN [kind |-> "Large", val |-> large]
        ELSE [kind |-> "Small", val |-> period_lower_bound]

\* ------------------------------------------------------- Shift::reverse
ShiftReverse(needle, period_lower_bound, critical_pos) ==
    LET large == Max(critical_pos, Len(needle) - critical_pos)
        v == Slice(needle, 0, critical_pos)
        u == Slice(needle, critical_pos, Len(needle))
    IN  IF (Len(needle) - critical_pos) * 2 >= Len(needle)
        THEN [kind |-> "Large", val |-> large]
        ELSE IF ~is_prefix(Slice(v, Len(v) - period_lower_bound, Len(v)), u)
        THEN [kind |-> "Large", val |-> large]
        ELSE [kind |-> "Small", val |-> period_lower_bound]

\* --------------------------------------------------- ApproximateByteSet
\* The 64-bit word as the set of its set bit positions.
ByteSetNew(needle) == { B(needle, k) % 64 : k \in 0..(Len(needle) - 1) }

\* ByteSetContains looking the byte itself up, not its residue.
ByteSetContains_NoMod(bits, byte) == byte \in bits

ByteSetContains(bits, byte) == (byte % 64) \in bits

\* -------------------------------------------------------- TwoWay::empty
TwoWayEmpty ==
    [critical_pos |-> 0, shift |-> [kind |-> "Large", val |-> 0],
     byteset |-> ByteSetNew(<< >>)]

\* --------------------------------------------------------- Forward::new
ForwardNew(needle) ==
    IF Len(needle) = 0 THEN TwoWayEmpty
    ELSE LET min_suffix == SuffixForward(needle, "Minimal")
             max_suffix == SuffixForward(needle, "Maximal")
             chosen == IF min_suffix.pos > max_suffix.pos
                       THEN min_suffix ELSE max_suffix
         IN  [critical_pos |-> chosen.pos,
              shift |-> ShiftForward(needle, chosen.period, chosen.pos),
              byteset |-> ByteSetNew(needle)]

\* --------------------------------------------------------- Reverse::new
ReverseNew(needle) ==
    IF Len(needle) = 0 THEN TwoWayEmpty
    ELSE LET min_suffix == SuffixReverse(needle, "Minimal")
             max_suffix == SuffixReverse(needle, "Maximal")
             chosen == IF min_suffix.pos < max_suffix.pos
                       THEN min_suffix ELSE max_suffix
         IN  [critical_pos |-> chosen.pos,
              shift |-> ShiftReverse(needle, chosen.period, chosen.pos),
              byteset |-> ByteSetNew(needle)]

\* ------------------------------------------------------ min_prefilter_len
PREFILTER_LENGTH_FACTOR == 2

VECTOR_MIN_LENGTH == 16

min_prefilter_len(haystack, needle) ==
    Max(VECTOR_MIN_LENGTH, PREFILTER_LENGTH_FACTOR * Len(needle))

\* ------------------------------------------------------ should_prefilter
should_prefilter(is_effective, haystack, needle) ==
    IF ~is_effective THEN FALSE
    ELSE Len(haystack) > min_prefilter_len(haystack, needle)

\* ---------------------------------------------- occurrences (reference)
Occurs(needle, haystack, i) ==
    /\ i >= 0
    /\ i + Len(needle) <= Len(haystack)
    /\ Slice(haystack, i, i + Len(needle)) = needle

OccSet(needle, haystack) ==
    { i \in 0..Len(haystack) : Occurs(needle, haystack, i) }

SetMin(S) == CHOOSE x \in S : \A y \in S : x <= y

SetMax(S) == CHOOSE x \in S : \A y \in S : x >= y

FirstOcc(needle, haystack) ==
    IF OccSet(needle, haystack) = {} THEN None
    ELSE SetMin(OccSet(needle, haystack))

LastOcc(needle, haystack) ==
    IF OccSet(needle, haystack) = {} THEN None
    ELSE SetMax(OccSet(needle, haystack))

\* ------------------------------ external collaborators (by interface)
\* crate::memchr: offset of the first byte equal to b.
memchr(b, haystack) == FirstOcc(<<b>>, haystack)

\* crate::memrchr: offset of the last byte equal to b.
memrchr(b, haystack) == LastOcc(<<b>>, haystack)

\* rabinkarp::find_with: offset of the first occurrence.
rabinkarp_find(haystack, needle) == FirstOcc(needle, haystack)

\* Freqy::find on a slice: any offset at or before the first occurrence of
\* the needle in the slice; when the slice holds no occurrence, None or any
\* offset inside the slice.
PreFindOutcomes(slice, needle) ==
    IF OccSet(needle, slice) # {}
    THEN 0..FirstOcc(needle, slice)
    ELSE {None} \cup (0..(Len(slice) - 1))

\* ------------------------------------------------- inner scanning loops
\* while i < needle.len() && needle[i] == haystack[pos + i] { i += 1 }
RECURSIVE RightScan(_, _, _, _)
RightScan(needle, haystack, pos, i) ==
    IF i < Len(needle) /\ B(needle, i) = B(haystack, pos + i)
    THEN RightScan(needle, haystack, pos, i + 1)
    ELSE i

\* while j > shift && needle[j] == haystack[pos + j] { j -= 1 }
RECURSIVE LeftScanMem(_, _, _, _, _)
LeftScanMem(needle, haystack, pos, j, shift) ==
    IF j > shift /\ B(needle, j) = B(haystack, pos + j)
    THEN LeftScanMem(needle, haystack, pos, j - 1, shift)
    ELSE j

\* for j in (0..critical_pos).rev() { if needle[j] != haystack[pos + j] .. }
LeftMismatch(needle, haystack, pos, critical_pos) ==
    \E j \in 0..(critical_pos - 1) : B(needle, j) # B(haystack, pos + j)

\* while i > 0 && needle[i - 1] == haystack[pos - nlen + i - 1] { i -= 1 }
RECURSIVE RevLeftScan(_, _, _, _)
RevLeftScan(needle, haystack, pos, i) ==
    IF i > 0 /\ B(needle, i - 1) = B(haystack, pos - Len(needle) + i - 1)
    THEN RevLeftScan(needle, haystack, pos, i - 1)
    ELSE i

\* while j < bound && needle[j] == haystack[pos - nlen + j] { j += 1 }
RECURSIVE RevRightScan(_, _, _, _, _)
RevRightScan(needle, haystack, pos, j, bound) ==
    IF j < bound /\ B(needle, j) = B(haystack, pos - Len(needle) + j)
    THEN RevRightScan(needle, haystack, pos, j + 1, bound)
    ELSE j

\* One pass of an outer loop ends in a record: done = TRUE with the value
\* returned, or done = FALSE with the next pos and memory.
Ret(v) == [done |-> TRUE, result |-> v, pos |-> 0, shift |-> 0]

Cont(p, s) == [done |-> FALSE, result |-> None, pos |-> p, shift |-> s]

\* FindSmallBody keeping the memory on a mismatch in the right part.
FindSmallBody_KeepMem(tw, needle, haystack, period, pos, shift, i0) ==
    LET last_byte == Len(needle) - 1 IN
    IF ~ByteSetContains(tw.byteset, B(haystack, pos + last_byte))
    THEN Cont(pos + Len(needle), 0)
    ELSE LET i == RightScan(needle, haystack, pos, i0) IN
         IF i < Len(needle)
         THEN Cont(pos + (i - tw.critical_pos + 1), shift)
         ELSE LET j == LeftScanMem(needle, haystack, pos,
                                   tw.critical_pos, shift)
              IN  IF j <= shift /\ B(needle, shift) = B(haystack, pos + shift)
                  THEN Ret(pos)
                  ELSE Cont(pos + period, Len(needle) - period)

\* FindSmallBody advancing by i - critical_pos, without the + 1, on a
\* mismatch in the right part.
FindSmallBody_NoPlusOne(tw, needle, haystack, period, pos, shift, i0) ==
    LET last_byte == Len(needle) - 1 IN
    IF ~ByteSetContains(tw.byteset, B(haystack, pos + last_byte))
    THEN Cont(pos + Len(needle), 0)
    ELSE LET i == RightScan(needle, haystack, pos, i0) IN
         IF i < Len(needle)
         THEN Cont(pos + (i - tw.critical_pos), 0)
         ELSE LET j == LeftScanMem(needle, haystack, pos,
                                   tw.critical_pos, shift)
              IN  IF j <= shift /\ B(needle, shift) = B(haystack, pos + shift)
                  THEN Ret(pos)
                  ELSE Cont(pos + period, Len(needle) - period)

\* FindSmallBody accepting without comparing the byte at index shift.
FindSmallBody_NoMemByte(tw, needle, haystack, period, pos, shift, i0) ==
    LET last_byte == Len(needle) - 1 IN
    IF ~ByteSetContains(tw.byteset, B(haystack, pos + last_byte))
    THEN Cont(pos + Len(needle), 0)
    ELSE LET i == RightScan(needle, haystack, pos, i0) IN
         IF i < Len(needle)
         THEN Cont(pos + (i - tw.critical_pos + 1), 0)
         ELSE LET j == LeftScanMem(needle, haystack, pos,
                                   tw.critical_pos, shift)
              IN  IF j <= shift
                  THEN Ret(pos)
                  ELSE Cont(pos + period, Len(needle) - period)

\* ----------------------- Forward::find_small_imp, body after the prefilter
FindSmallBody(tw, needle, haystack, period, pos, shift, i0) ==
    LET last_byte == Len(needle) - 1 IN
    IF ~ByteSetContains(tw.byteset, B(haystack, pos + last_byte))
    THEN Cont(pos + Len(needle), 0)
    ELSE LET i == RightScan(needle, haystack, pos, i0) IN
         IF i < Len(needle)
         THEN Cont(pos + (i - tw.critical_pos + 1), 0)
         ELSE LET j == LeftScanMem(needle, haystack, pos,
                                   tw.critical_pos, shift)
              IN  IF j <= shift /\ B(needle, shift) = B(haystack, pos + shift)
                  THEN Ret(pos)
                  ELSE Cont(pos + period, Len(needle) - period)

\* FindSmallIter keeping the memory across a prefilter jump.
FindSmallIter_StaleMem(tw, needle, haystack, period, pos, shift, usepre, k) ==
    IF ~(pos + Len(needle) <= Len(haystack)) THEN Ret(None)
    ELSE IF usepre
    THEN IF k = None THEN Ret(None)
         ELSE IF pos + k + Len(needle) > Len(haystack) THEN Ret(None)
         ELSE FindSmallBody(tw, needle, haystack, period, pos + k, shift,
                            Max(tw.critical_pos, shift))
    ELSE FindSmallBody(tw, needle, haystack, period, pos, shift,
                       Max(tw.critical_pos, shift))

\* ------------------ Forward::find_small_imp, one pass of the outer loop
\* usepre: prefilter && prestate.is_effective(); k: what pre.find returned.
FindSmallIter(tw, needle, haystack, period, pos, shift, usepre, k) ==
    IF ~(pos + Len(needle) <= Len(haystack)) THEN Ret(None)
    ELSE IF usepre
    THEN IF k = None THEN Ret(None)
         ELSE IF pos + k + Len(needle) > Len(haystack) THEN Ret(None)
         ELSE FindSmallBody(tw, needle, haystack, period, pos + k, 0,
                            tw.critical_pos)
    ELSE FindSmallBody(tw, needle, haystack, period, pos, shift,
                       Max(tw.critical_pos, shift))

\* FindLargeBody advancing by one byte on a mismatch in the right part.
FindLargeBody_StepOne(tw, needle, haystack, shift, pos) ==
    LET last_byte == Len(needle) - 1 IN
    IF ~ByteSetContains(tw.byteset, B(haystack, pos + last_byte))
    THEN Cont(pos + Len(needle), 0)
    ELSE LET i == RightScan(needle, haystack, pos, tw.critical_pos) IN
         IF i < Len(needle)
         THEN Cont(pos + 1, 0)
         ELSE IF LeftMismatch(needle, haystack, pos, tw.critical_pos)
         THEN Cont(pos + shift, 0)
         ELSE Ret(pos)

\* FindLargeBody testing the first byte of the window against the byteset.
FindLargeBody_FirstByte(tw, needle, haystack, shift, pos) ==
    IF ~ByteSetContains(tw.byteset, B(haystack, pos))
    THEN Cont(pos + Len(needle), 0)
    ELSE LET i == RightScan(needle, haystack, pos, tw.critical_pos) IN
         IF i < Len(needle)
         THEN Cont(pos + (i - tw.critical_pos + 1), 0)
         ELSE IF LeftMismatch(needle, haystack, pos, tw.critical_pos)
         THEN Cont(pos + shift, 0)
         ELSE Ret(pos)

\* ----------------------- Forward::find_large_imp, body after the prefilter
FindLargeBody(tw, needle, haystack, shift, pos) ==
    LET last_byte == Len(needle) - 1 IN
    IF ~ByteSetContains(tw.byteset, B(haystack, pos + last_byte))
    THEN Cont(pos + Len(needle), 0)
    ELSE LET i == RightScan(needle, haystack, pos, tw.critical_pos) IN
         IF i < Len(needle)
         THEN Cont(pos + (i - tw.critical_pos + 1), 0)
         ELSE IF LeftMismatch(needle, haystack, pos, tw.critical_pos)
         THEN Cont(pos + shift, 0)
         ELSE Ret(pos)

\* ------------------ Forward::find_large_imp, one pass of the outer loop
FindLargeIter(tw, needle, haystack, shift, pos, usepre, k) ==
    IF ~(pos + Len(needle) <= Len(haystack)) THEN Ret(None)
    ELSE IF usepre
    THEN IF k = None THEN Ret(None)
         ELSE IF pos + k + Len(needle) > Len(haystack) THEN Ret(None)
         ELSE FindLargeBody(tw, needle, haystack, shift, pos + k)
    ELSE FindLargeBody(tw, needle, haystack, shift, pos)

\* RfindSmallIter stepping back by critical_pos + 1 on a mismatch in the
\* left part, wherever the mismatch is.
RfindSmallIter_FullStepBack(tw, needle, haystack, period, pos, shift) ==
    LET nlen == Len(needle) IN
    IF ~(pos >= nlen) THEN Ret(None)
    ELSE IF ~ByteSetContains(tw.byteset, B(haystack, pos - nlen))
    THEN Cont(pos - nlen, nlen)
    ELSE LET i == RevLeftScan(needle, haystack, pos,
                              Min(tw.critical_pos, shift))
         IN  IF i > 0 \/ B(needle, 0) # B(haystack, pos - nlen)
             THEN Cont(pos - (tw.critical_pos + 1), nlen)
             ELSE LET j == RevRightScan(needle, haystack, pos,
                                        tw.critical_pos, shift)
                  IN  IF j = shift
                      THEN Ret(pos - nlen)
                      ELSE Cont(pos - period, period)

\* ----------------- Reverse::rfind_small_imp, one pass of the outer loop
RfindSmallIter(tw, needle, haystack, period, pos, shift) ==
    LET nlen == Len(needle) IN
    IF ~(pos >= nlen) THEN Ret(None)
    ELSE IF ~ByteSetContains(tw.byteset, B(haystack, pos - nlen))
    THEN Cont(pos - nlen, nlen)
    ELSE LET i == RevLeftScan(needle, haystack, pos,
                              Min(tw.critical_pos, shift))
         IN  IF i > 0 \/ B(needle, 0) # B(haystack, pos - nlen)
             THEN Cont(pos - (tw.critical_pos - i + 1), nlen)
             ELSE LET j == RevRightScan(needle, haystack, pos,
                                        tw.critical_pos, shift)
                  IN  IF j = shift
                      THEN Ret(pos - nlen)
                      ELSE Cont(pos - period, period)

\* ----------------- Reverse::rfind_large_imp, one pass of the outer loop
RfindLargeIter(tw, needle, haystack, shift, pos) ==
    LET nlen == Len(needle) IN
    IF ~(pos >= nlen) THEN Ret(None)
    ELSE IF ~ByteSetContains(tw.byteset, B(haystack, pos - nlen))
    THEN Cont(pos - nlen, 0)
    ELSE LET i == RevLeftScan(needle, haystack, pos, tw.critical_pos) IN
         IF i > 0 \/ B(needle, 0) # B(haystack, pos - nlen)
         THEN Cont(pos - (tw.critical_pos - i + 1), 0)
         ELSE LET j == RevRightScan(needle, haystack, pos,
                                    tw.critical_pos, nlen)
              IN  IF j = nlen
                  THEN Ret(pos - nlen)
                  ELSE Cont(pos - shift, 0)

\* ------------------------------------ byte comparisons of one loop pass
\* The comparisons needle[..] == haystack[..] one pass evaluates, the failed
\* one included; a test of the byteset compares no needle byte.
\* while i < needle.len() && needle[i] == haystack[pos + i], from i0 to i
RightScanCost(needle, i0, i) == (i - i0) + (IF i < Len(needle) THEN 1 ELSE 0)

FindSmallBodyCost(tw, needle, haystack, pos, shift, i0) ==
    LET last_byte == Len(needle) - 1 IN
    IF ~ByteSetContains(tw.byteset, B(haystack, pos + last_byte))
    THEN 0
    ELSE LET i == RightScan(needle, haystack, pos, i0) IN
         IF i < Len(needle)
         THEN RightScanCost(needle, i0, i)
         ELSE LET j == LeftScanMem(needle, haystack, pos,
                                   tw.critical_pos, shift)
              IN  RightScanCost(needle, i0, i)
                  + (tw.critical_pos - j)
                  + (IF j > shift THEN 1 ELSE 0)
                  + (IF j <= shift THEN 1 ELSE 0)

FindSmallIterCost(tw, needle, haystack, pos, shift, usepre, k) ==
    IF ~(pos + Len(needle) <= Len(haystack)) THEN 0
    ELSE IF usepre
    THEN IF k = None THEN 0
         ELSE IF pos + k + Len(needle) > Len(haystack) THEN 0
         ELSE FindSmallBodyCost(tw, needle, haystack, pos + k, 0,
                                tw.critical_pos)
    ELSE FindSmallBodyCost(tw, needle, haystack, pos, shift,
                           Max(tw.critical_pos, shift))

\* for j in (0..critical_pos).rev(): down to the first mismatch
LeftMismatchCost(needle, haystack, pos, critical_pos) ==
    IF LeftMismatch(needle, haystack, pos, critical_pos)
    THEN critical_pos
         - SetMax({ j \in 0..(critical_pos - 1) :
                      B(needle, j) # B(haystack, pos + j) })
    ELSE critical_pos

FindLargeBodyCost(tw, needle, haystack, pos) ==
    LET last_byte == Len(needle) - 1 IN
    IF ~ByteSetContains(tw.byteset, B(haystack, pos + last_byte))
    THEN 0
    ELSE LET i == RightScan(needle, haystack, pos, tw.critical_pos) IN
         IF i < Len(needle)
         THEN RightScanCost(needle, tw.critical_pos, i)
         ELSE RightScanCost(needle, tw.critical_pos, i)
              + LeftMismatchCost(needle, haystack, pos, tw.critical_pos)

FindLargeIterCost(tw, needle, haystack, pos, usepre, k) ==
    IF ~(pos + Len(needle) <= Len(haystack)) THEN 0
    ELSE IF usepre
    THEN IF k = None THEN 0
         ELSE IF pos + k + Len(needle) > Len(haystack) THEN 0
         ELSE FindLargeBodyCost(tw, needle, haystack, pos + k)
    ELSE FindLargeBodyCost(tw, needle, haystack, pos)

\* the reverse loops: left scan from i0 down to i, the test of needle[0]
\* when i = 0, then the right scan from critical_pos up to bound
RfindIterCost(tw, needle, haystack, pos, i0, bound) ==
    LET nlen == Len(needle) IN
    IF ~(pos >= nlen) THEN 0
    ELSE IF ~ByteSetContains(tw.byteset, B(haystack, pos - nlen))
    THEN 0
    ELSE LET i == RevLeftScan(needle, haystack, pos, i0)
             left == (i0 - i) + 1
         IN  IF i > 0 \/ B(needle, 0) # B(haystack, pos - nlen)
             THEN left
             ELSE LET j == RevRightScan(needle, haystack, pos,
                                        tw.critical_pos, bound)
                  IN  left + (IF tw.critical_pos < bound
                              THEN (j - tw.critical_pos)
                                   + (IF j < bound THEN 1 ELSE 0)
                              ELSE 0)

\* ------------------------------------- indices read by one loop pass
\* every index of S is inside a slice of length n
InRange(S, n) == \A x \in S : 0 <= x /\ x < n

\* find_small_imp with the window at p (after the prefilter jump, if any),
\* memory shift and the right scan starting at i0: every needle and
\* haystack index read is inside, no subtraction goes below zero.
FindSmallPassSafe(tw, needle, haystack, period, p, shift, i0) ==
    LET nlen == Len(needle)
        hlen == Len(haystack)
        c == tw.critical_pos
    IN  /\ nlen - 1 >= 0
        /\ InRange({p + (nlen - 1)}, hlen)
        /\ 0 <= p /\ 0 <= shift /\ 0 <= i0
        /\ ByteSetContains(tw.byteset, B(haystack, p + (nlen - 1))) =>
             LET i == RightScan(needle, haystack, p, i0) IN
             /\ InRange(i0..Min(i, nlen - 1), nlen)
             /\ InRange({ p + x : x \in i0..Min(i, nlen - 1) }, hlen)
             /\ i < nlen => i - c >= 0
             /\ i >= nlen =>
                  /\ (c > shift) => (InRange({c}, nlen)
                                       /\ InRange({p + c}, hlen))
                  /\ LET j == LeftScanMem(needle, haystack, p, c, shift)
                         left == { x \in j..c : x > shift }
                                 \cup (IF j <= shift THEN {shift} ELSE {})
                     IN  /\ InRange(left, nlen)
                         /\ InRange({ p + x : x \in left }, hlen)
                         /\ nlen - period >= 0

\* find_large_imp with the window at p
FindLargePassSafe(tw, needle, haystack, p) ==
    LET nlen == Len(needle)
        hlen == Len(haystack)
        c == tw.critical_pos
    IN  /\ nlen - 1 >= 0
        /\ InRange({p + (nlen - 1)}, hlen)
        /\ 0 <= p /\ 0 <= c
        /\ ByteSetContains(tw.byteset, B(haystack, p + (nlen - 1))) =>
             LET i == RightScan(needle, haystack, p, c) IN
             /\ InRange(c..Min(i, nlen - 1), nlen)
             /\ InRange({ p + x : x \in c..Min(i, nlen - 1) }, hlen)
             /\ i < nlen => i - c >= 0
             /\ i >= nlen =>
                  /\ InRange(0..(c - 1), nlen)
                  /\ InRange({ p + x : x \in 0..(c - 1) }, hlen)

\* a forward loop at pos: the slice haystack[pos..] handed to the prefilter
\* and every window the pass can then stand on
FindPassSafe(tw, needle, haystack, small, pos, shift, usepre) ==
    LET nlen == Len(needle)
        hlen == Len(haystack)
        Pass(p, s, i0) ==
            IF small
            THEN FindSmallPassSafe(tw, needle, haystack, tw.shift.val,
                                   p, s, i0)
            ELSE FindLargePassSafe(tw, needle, haystack, p)
    IN  /\ 0 <= pos
        /\ (pos + nlen <= hlen) =>
             IF usepre
             THEN /\ pos <= hlen
                  /\ \A k \in PreFindOutcomes(Slice(haystack, pos, hlen),
                                               needle) :
                         (k # None /\ pos + k + nlen <= hlen) =>
                             Pass(pos + k, 0, tw.critical_pos)
             ELSE Pass(pos, shift, Max(tw.critical_pos, shift))

\* a reverse loop at pos: left scan from i0, right scan up to bound, then a
\* step back by back (the period or the large shift)
RfindPassSafe(tw, needle, haystack, pos, i0, bound, back) ==
    LET nlen == Len(needle)
        hlen == Len(haystack)
        c == tw.critical_pos
    IN  /\ 0 <= pos
        /\ (pos >= nlen) =>
             /\ pos - nlen >= 0
             /\ InRange({pos - nlen}, hlen)
             /\ 0 <= i0 /\ i0 <= nlen /\ nlen >= 1
             /\ ByteSetContains(tw.byteset, B(haystack, pos - nlen)) =>
                  LET i == RevLeftScan(needle, haystack, pos, i0)
                      left == { x - 1 : x \in Max(i, 1)..i0 } \cup {0}
                  IN  /\ InRange(left, nlen)
                      /\ InRange({ pos - nlen + x : x \in left }, hlen)
                      /\ (i > 0 \/ B(needle, 0) # B(haystack, pos - nlen)) =>
                           /\ c - i >= 0
                           /\ pos - (c - i + 1) >= 0
                      /\ ~(i > 0 \/ B(needle, 0) # B(haystack, pos - nlen)) =>
                           /\ 0 <= c /\ bound <= nlen
                           /\ LET j == RevRightScan(needle, haystack, pos,
                                                    c, bound)
                                  right == c..Min(j, bound - 1)
                              IN  /\ InRange(right, nlen)
                                  /\ InRange({ pos - nlen + x : x \in right },
                                             hlen)
                                  /\ j # bound => pos - back >= 0

\* ------------------------------ Forward::find_with, before the loops
\* done with the value of a short path, or the entry of a Two-Way loop.
FindWithEntry(needle, haystack) ==
    IF Len(needle) <= 1
    THEN IF Len(needle) = 0 THEN Ret(0)
         ELSE Ret(memchr(B(needle, 0), haystack))
    ELSE IF Len(haystack) < Len(needle) THEN Ret(None)
    ELSE IF Len(haystack) < min_prefilter_len(haystack, needle)
    THEN Ret(rabinkarp_find(haystack, needle))
    ELSE Cont(0, 0)

\* RfindEntry answering the empty needle as the forward search does.
RfindEntry_Zero(needle, haystack) ==
    IF Len(needle) = 0 THEN Ret(0)
    ELSE IF Len(haystack) < Len(needle) THEN Ret(None)
    ELSE IF Len(needle) = 1 THEN Ret(memrchr(B(needle, 0), haystack))
    ELSE Cont(Len(haystack), Len(needle))

\* -------------------------------- Reverse::rfind, before the loops
RfindEntry(needle, haystack) ==
    IF Len(needle) = 0 THEN Ret(Len(haystack))
    ELSE IF Len(haystack) < Len(needle) THEN Ret(None)
    ELSE IF Len(needle) = 1 THEN Ret(memrchr(B(needle, 0), haystack))
    ELSE Cont(Len(haystack), Len(needle))

\* ------------- the forward loops run to their end with prefilter = false
RECURSIVE FindSmallRun(_, _, _, _, _, _)
FindSmallRun(tw, needle, haystack, period, pos, shift) ==
    LET r == FindSmallIter(tw, needle, haystack, period, pos, shift,
                           FALSE, None)
    IN  IF r.done THEN r.result
        ELSE FindSmallRun(tw, needle, haystack, period, r.pos, r.shift)

RECURSIVE FindLargeRun(_, _, _, _, _)
FindLargeRun(tw, needle, haystack, shift, pos) ==
    LET r == FindLargeIter(tw, needle, haystack, shift, pos, FALSE, None)
    IN  IF r.done THEN r.result
        ELSE FindLargeRun(tw, needle, haystack, shift, r.pos)

\* find_with_imp when should_prefilter is false
FindImpNoPre(tw, needle, haystack) ==
    IF tw.shift.kind = "Small"
    THEN FindSmallRun(tw, needle, haystack, tw.shift.val, 0, 0)
    ELSE FindLargeRun(tw, needle, haystack, tw.shift.val, 0)

\* simpletests::twoway_find_nopre: Forward::new(Prefilter::None).find(h)
twoway_find_nopre(haystack, needle) ==
    LET e == FindWithEntry(needle, haystack) IN
    IF e.done THEN e.result
    ELSE FindImpNoPre(ForwardNew(needle), needle, haystack)

\* ================================================================ state
VARIABLES
    needle,      \* the needle the searcher is built from
    haystack,    \* the haystack of the call
    op,          \* "find" (Forward::find), "find_imp" (the forward loops
                 \* called directly), "rfind" (Reverse::rfind)
    config,      \* Config.prefilter: "None" or "Auto"
    pc,          \* position of the call
    tw,          \* the TwoWay searcher: critical_pos, shift, byteset
    pos,         \* pos of the running loop
    mem,         \* the local `shift` of the small-period loops (the memory)
    prefilter,   \* the `prefilter` argument of the forward loops
    effective,   \* prestate.is_effective()
    pre_invoked, \* the last pass of a loop called self.0.pre.find
    result,      \* the value returned: None or an offset
    metered,     \* the call is run with its comparisons counted
    cmps         \* needle-byte against haystack-byte comparisons the
                 \* Two-Way loops of a metered call have made so far

vars == << needle, haystack, op, config, pc, tw, pos, mem, prefilter,
           effective, pre_invoked, result, metered, cmps >>

\* the counter after n more comparisons
Counted(n) == IF metered THEN cmps + n ELSE cmps

\* Haystacks long enough for find_with to reach the Two-Way loops: the
\* cyclic repetition of a short unit, at the threshold of min_prefilter_len
\* (no prefilter) and above it.
Rep(u, n) == [k \in 1..n |-> u[((k - 1) % Len(u)) + 1]]

LongHays ==
    { Rep(u, n) : u \in (SeqsUpTo({1, 2}, 3) \ {<< >>}),
                  n \in {VECTOR_MIN_LENGTH, LongLen} }

\* Haystacks with two planted occurrences of the needle and short gaps,
\* the longer gap after the occurrences or before them.
Planted(n) ==
    { n \o a \o n \o b : a \in SeqsUpTo(Alphabet, 1),
                         b \in SeqsUpTo(Alphabet, MaxGap) }
    \cup
    { b \o n \o a \o n : a \in SeqsUpTo(Alphabet, 1),
                         b \in SeqsUpTo(Alphabet, MaxGap) }

Init ==
    /\ needle \in SeqsUpTo(Alphabet, MaxNeedle)
    /\ haystack \in SeqsUpTo(Alphabet, MaxHay) \cup LongHays
                                               \cup Planted(needle)
    /\ op \in {"find", "find_imp", "rfind"}
    /\ config \in {"None", "Auto"}
    /\ op = "rfind" => config = "None"
    /\ op = "find_imp" => (config = "Auto" /\ haystack \notin LongHays)
    /\ op = "find" => (haystack \in LongHays \/ Len(haystack) <= MaxNeedle)
    /\ pc = "new"
    /\ tw = TwoWayEmpty
    /\ pos = 0
    /\ mem = 0
    /\ prefilter = FALSE
    /\ effective = FALSE
    /\ pre_invoked = FALSE
    /\ result = None
    /\ metered = FALSE
    /\ cmps = 0

\* Forward::new, then prefilter_state(): with Prefilter::None the Freqy is
\* inert and its state never effective; with Auto either is possible.
NewForward ==
    /\ pc = "new"
    /\ op \in {"find", "find_imp"}
    /\ tw' = ForwardNew(needle)
    /\ effective' \in (IF config = "None" \/ Len(needle) = 0
                       THEN {FALSE} ELSE BOOLEAN)
    /\ pc' = op
    /\ UNCHANGED << needle, haystack, op, config, metered, pos, mem, prefilter,
                    pre_invoked, result, cmps >>

\* Reverse::new: the Freqy is inert.
NewReverse ==
    /\ pc = "new"
    /\ op = "rfind"
    /\ tw' = ReverseNew(needle)
    /\ pc' = "rfind"
    /\ UNCHANGED << needle, haystack, op, config, metered, pos, mem, prefilter,
                    effective, pre_invoked, result, cmps >>

\* What a short path or one pass of a loop leaves in the state.
Apply(r, looppc) ==
    IF r.done
    THEN /\ result' = r.result
         /\ pc' = "done"
         /\ UNCHANGED << pos, mem >>
    ELSE /\ pos' = r.pos
         /\ mem' = r.shift
         /\ pc' = looppc
         /\ UNCHANGED result

\* Forward::find_with and find_with_imp
FindWith ==
    /\ pc = "find"
    /\ Apply(FindWithEntry(needle, haystack),
             IF tw.shift.kind = "Small" THEN "find_small" ELSE "find_large")
    /\ prefilter' = (IF FindWithEntry(needle, haystack).done THEN prefilter
                     ELSE should_prefilter(effective, haystack, needle))
    /\ UNCHANGED << needle, haystack, op, config, metered, tw, effective,
                    pre_invoked, cmps >>

\* find_small_imp / find_large_imp called on their own, on any haystack no
\* shorter than a needle of two bytes or more, with either prefilter flag.
CallFindImp ==
    /\ pc = "find_imp"
    /\ Len(needle) >= 2
    /\ Len(haystack) >= Len(needle)
    /\ Apply(Cont(0, 0),
             IF tw.shift.kind = "Small" THEN "find_small" ELSE "find_large")
    /\ prefilter' \in BOOLEAN
    /\ UNCHANGED << needle, haystack, op, config, metered, tw, effective,
                    pre_invoked, cmps >>

\* FindSmallStep calling the prefilter whenever the flag `prefilter` is
\* set, without asking prestate.is_effective().
FindSmallStep_NoEffectiveTest ==
    /\ pc = "find_small"
    /\ IF pos + Len(needle) <= Len(haystack) /\ prefilter
       THEN \E k \in PreFindOutcomes(Slice(haystack, pos, Len(haystack)),
                                     needle) :
              /\ Apply(FindSmallIter(tw, needle, haystack, tw.shift.val,
                                     pos, mem, TRUE, k), "find_small")
              /\ cmps' = Counted(FindSmallIterCost(tw, needle, haystack,
                                                  pos, mem, TRUE, k))
              /\ effective' \in BOOLEAN
              /\ pre_invoked' = TRUE
       ELSE /\ Apply(FindSmallIter(tw, needle, haystack, tw.shift.val,
                                   pos, mem, FALSE, None), "find_small")
            /\ cmps' = Counted(FindSmallIterCost(tw, needle, haystack,
                                                pos, mem, FALSE, None))
            /\ pre_invoked' = FALSE
            /\ UNCHANGED effective
    /\ UNCHANGED << needle, haystack, op, config, metered, tw, prefilter >>

\* One pass of the outer loop of find_small_imp (or its exit).
FindSmallStep ==
    /\ pc = "find_small"
    /\ IF pos + Len(needle) <= Len(haystack) /\ prefilter /\ effective
       THEN \E k \in PreFindOutcomes(Slice(haystack, pos, Len(haystack)),
                                     needle) :
              /\ Apply(FindSmallIter(tw, needle, haystack, tw.shift.val,
                                     pos, mem, TRUE, k), "find_small")
              /\ cmps' = Counted(FindSmallIterCost(tw, needle, haystack,
                                                  pos, mem, TRUE, k))
              /\ effective' \in BOOLEAN
              /\ pre_invoked' = TRUE
       ELSE /\ Apply(FindSmallIter(tw, needle, haystack, tw.shift.val,
                                   pos, mem, FALSE, None), "find_small")
            /\ cmps' = Counted(FindSmallIterCost(tw, needle, haystack,
                                                pos, mem, FALSE, None))
            /\ pre_invoked' = FALSE
            /\ UNCHANGED effective
    /\ UNCHANGED << needle, haystack, op, config, metered, tw, prefilter >>

\* One pass of the outer loop of find_large_imp (or its exit).
FindLargeStep ==
    /\ pc = "find_large"
    /\ IF pos + Len(needle) <= Len(haystack) /\ prefilter /\ effective
       THEN \E k \in PreFindOutcomes(Slice(haystack, pos, Len(haystack)),
                                     needle) :
              /\ Apply(FindLargeIter(tw, needle, haystack, tw.shift.val,
                                     pos, TRUE, k), "find_large")
              /\ cmps' = Counted(FindLargeIterCost(tw, needle, haystack,
                                                  pos, TRUE, k))
              /\ effective' \in BOOLEAN
              /\ pre_invoked' = TRUE
       ELSE /\ Apply(FindLargeIter(tw, needle, haystack, tw.shift.val,
                                   pos, FALSE, None), "find_large")
            /\ cmps' = Counted(FindLargeIterCost(tw, needle, haystack,
                                                pos, FALSE, None))
            /\ pre_invoked' = FALSE
            /\ UNCHANGED effective
    /\ UNCHANGED << needle, haystack, op, config, metered, tw, prefilter >>

\* Reverse::rfind up to the entry of a loop
Rfind ==
    /\ pc = "rfind"
    /\ Apply(RfindEntry(needle, haystack),
             IF tw.shift.kind = "Small" THEN "rfind_small" ELSE "rfind_large")
    /\ UNCHANGED << needle, haystack, op, config, metered, tw, prefilter,
                    effective, pre_invoked, cmps >>

\* One pass of the outer loop of rfind_small_imp (or its exit).
RfindSmallStep ==
    /\ pc = "rfind_small"
    /\ Apply(RfindSmallIter(tw, needle, haystack, tw.shift.val, pos, mem),
             "rfind_small")
    /\ cmps' = Counted(RfindIterCost(tw, needle, haystack, pos,
                                    Min(tw.critical_pos, mem), mem))
    /\ UNCHANGED << needle, haystack, op, config, metered, tw, prefilter,
                    effective, pre_invoked >>

\* One pass of the outer loop of rfind_large_imp (or its exit).
RfindLargeStep ==
    /\ pc = "rfind_large"
    /\ Apply(RfindLargeIter(tw, needle, haystack, tw.shift.val, pos),
             "rfind_large")
    /\ cmps' = Counted(RfindIterCost(tw, needle, haystack, pos,
                                    tw.critical_pos, Len(needle)))
    /\ UNCHANGED << needle, haystack, op, config, metered, tw, prefilter,
                    effective, pre_invoked >>

Next ==
    \/ NewForward
    \/ NewReverse
    \/ FindWith
    \/ CallFindImp
    \/ FindSmallStep
    \/ FindLargeStep
    \/ Rfind
    \/ RfindSmallStep
    \/ RfindLargeStep

Spec == Init /\ [][Next]_vars

\* ------------------------------------------------ calls run to their end
InitLive ==
    /\ needle \in SeqsUpTo({1, 2}, MaxLiveNeedle)
    /\ haystack \in SeqsUpTo({1, 2}, MaxLiveHay) \cup LongHays
    /\ op \in {"find", "find_imp", "rfind"}
    /\ config \in {"None", "Auto"}
    /\ op = "rfind" => config = "None"
    /\ op = "find_imp" => (config = "Auto" /\ haystack \notin LongHays)
    /\ op = "find" => (haystack \in LongHays \/ Len(haystack) <= 1)
    /\ pc = "new"
    /\ tw = TwoWayEmpty
    /\ pos = 0
    /\ mem = 0
    /\ prefilter = FALSE
    /\ effective = FALSE
    /\ pre_invoked = FALSE
    /\ result = None
    /\ metered = FALSE
    /\ cmps = 0

\* A call is sequential code that runs on until it returns: a step that
\* can be taken is taken.
SpecLive == InitLive /\ [][Next]_vars /\ WF_vars(Next)

\* ------------------------------------- construction alone, longer needles
InitNew ==
    /\ needle \in SeqsUpTo(Alphabet, MaxNewNeedle)
    /\ haystack = << >>
    /\ op \in {"find", "rfind"}
    /\ config = "None"
    /\ pc = "new"
    /\ tw = TwoWayEmpty
    /\ pos = 0
    /\ mem = 0
    /\ prefilter = FALSE
    /\ effective = FALSE
    /\ pre_invoked = FALSE
    /\ result = None
    /\ metered = FALSE
    /\ cmps = 0

NextNew ==
    \/ NewForward
    \/ NewReverse

SpecNew == InitNew /\ [][NextNew]_vars

\* ------------------ comparison counts: longer needles over two byte values
InitCost ==
    /\ needle \in SeqsUpTo({1, 2}, MaxCostNeedle)
    /\ haystack \in SeqsUpTo({1, 2}, MaxCostHay) \cup LongHays
    /\ op \in {"find", "find_imp", "rfind"}
    /\ config \in {"None", "Auto"}
    /\ op = "rfind" => config = "None"
    /\ op = "find_imp" => haystack \notin LongHays
    /\ op = "find" => haystack \in LongHays
    /\ pc = "new"
    /\ tw = TwoWayEmpty
    /\ pos = 0
    /\ mem = 0
    /\ prefilter = FALSE
    /\ effective = FALSE
    /\ pre_invoked = FALSE
    /\ result = None
    /\ metered = TRUE
    /\ cmps = 0

SpecCost == InitCost /\ [][Next]_vars

\* ================================================================ claims
Forward == op \in {"find", "find_imp"}

Built == pc # "new" /\ Len(needle) > 0

IsSmall == tw.shift.kind = "Small"

\* p is a period of s: s[i] = s[i + p] for all valid i
IsPeriod(s, p) == \A i \in 0..(Len(s) - p - 1) : B(s, i) = B(s, i + p)

SmallestPeriod(s) == SetMin({ p \in 1..Len(s) : IsPeriod(s, p) })

\* C1: a forward search that returns Some(i) returns the start of an
\* occurrence inside the haystack, and no occurrence starts before i.
C1_ForwardSound ==
    (pc = "done" /\ Forward /\ result # None) =>
        /\ result >= 0
        /\ result + Len(needle) <= Len(haystack)
        /\ Slice(haystack, result, result + Len(needle)) = needle
        /\ \A j \in 0..(result - 1) : ~Occurs(needle, haystack, j)

C1_Witness ==
    /\ pc = "done"
    /\ op = "find_imp"
    /\ ~prefilter
    /\ IsSmall
    /\ result >= 1

\* C2: when the needle occurs in the haystack, a forward search returns
\* Some(i') with i' at or before every occurrence.
C2_ForwardComplete ==
    (pc = "done" /\ Forward) =>
        \A i \in OccSet(needle, haystack) : result # None /\ result <= i

C2_Witness ==
    /\ pc = "done"
    /\ op = "find_imp"
    /\ ~prefilter
    /\ ~IsSmall
    /\ result >= Len(needle)

\* C3: when the needle occurs in the haystack, rfind does not return None.
C3_ReverseComplete ==
    (pc = "done" /\ op = "rfind") =>
        (OccSet(needle, haystack) # {} => result # None)

\* C4: an rfind that returns Some(i) returns the start of an occurrence
\* inside the haystack, and no occurrence starts after i.
C4_ReverseSound ==
    (pc = "done" /\ op = "rfind" /\ result # None) =>
        /\ result >= 0
        /\ result + Len(needle) <= Len(haystack)
        /\ Slice(haystack, result, result + Len(needle)) = needle
        /\ \A j \in (result + 1)..Len(haystack) : ~Occurs(needle, haystack, j)

\* C5: a forward search with Prefilter::Auto, whatever offsets and verdicts
\* the prefilter gives within its interface, returns what the search with
\* Prefilter::None returns.
C5_PrefilterInvariance ==
    (pc = "done" /\ Forward /\ config = "Auto") =>
        result = (IF op = "find" THEN twoway_find_nopre(haystack, needle)
                  ELSE FindImpNoPre(tw, needle, haystack))

C5_Witness ==
    /\ pc = "done"
    /\ op = "find"
    /\ config = "Auto"
    /\ pre_invoked
    /\ result >= 1

\* C6: with the empty needle find returns Some(0) and rfind returns
\* Some(|haystack|), on every haystack.
C6_EmptyNeedle ==
    (pc = "done" /\ Len(needle) = 0) =>
        /\ op = "find" => result = 0
        /\ op = "rfind" => result = Len(haystack)

C6_Witness ==
    /\ pc = "done"
    /\ Len(needle) = 0
    /\ op = "rfind"
    /\ Len(haystack) > 0
    /\ result = Len(haystack)

\* C7 as claimed: the critical position of a non-empty needle of length m
\* is in [0, m), in the forward and in the reverse searcher.
C7_CritPosBelowLen ==
    Built => (0 <= tw.critical_pos /\ tw.critical_pos < Len(needle))

\* C7 amended: the critical position is in [0, m) in the forward searcher
\* and in (0, m] in the reverse searcher.
C7_CritPosRange ==
    Built =>
        /\ Forward => (0 <= tw.critical_pos /\ tw.critical_pos < Len(needle))
        /\ op = "rfind" =>
               (0 < tw.critical_pos /\ tw.critical_pos <= Len(needle))

C7_Witness ==
    /\ Built
    /\ op = "rfind"
    /\ tw.critical_pos = Len(needle)
    /\ Len(needle) >= 2

\* C8 as claimed: in the Small regime the period is at most m/2.
C8_SmallPeriodHalf ==
    (Built /\ IsSmall) => 2 * tw.shift.val <= Len(needle)

\* C8 amended: in the Large regime the smallest period of the needle exceeds
\* m/2 (a needle with period at most m/2 is in the Small regime), and a
\* Small period is at most the length of the part scanned first: m - c in
\* the forward searcher, c in the reverse searcher.
C8_ShortPeriodIsSmall ==
    Built =>
        /\ ~IsSmall => 2 * SmallestPeriod(needle) > Len(needle)
        /\ (IsSmall /\ Forward) =>
               tw.shift.val <= Len(needle) - tw.critical_pos
        /\ (IsSmall /\ op = "rfind") => tw.shift.val <= tw.critical_pos

C8_Witness ==
    /\ Built
    /\ IsSmall
    /\ Len(needle) >= 3
    /\ 2 * tw.shift.val > Len(needle)

\* C9: in the Small regime the period is the smallest period of the needle.
C9_SmallPeriodExact ==
    (Built /\ IsSmall) => tw.shift.val = SmallestPeriod(needle)

C9_Witness ==
    /\ Built
    /\ IsSmall
    /\ tw.shift.val >= 2
    /\ tw.critical_pos >= 1
    /\ Len(needle) >= 2 * tw.shift.val

\* C10: in the forward Small regime 2*c < m and needle[0..c] is a suffix
\* of needle[c..c+period].
C10_ForwardShiftSelection ==
    (Built /\ Forward /\ IsSmall) =>
        LET c == tw.critical_pos
            p == tw.shift.val
        IN  /\ 2 * c < Len(needle)
            /\ c <= p
            /\ c + p <= Len(needle)
            /\ \A k \in 0..(c - 1) : B(needle, k) = B(needle, p + k)

C10_Witness ==
    /\ Built
    /\ Forward
    /\ IsSmall
    /\ tw.critical_pos >= 2

\* ------------------------------------------- suffix oracles (mod tests)
\* a <= b in the order of byte slices: lexicographic, a proper prefix first
LexLeq(a, b) ==
    \/ /\ Len(a) <= Len(b)
       /\ \A k \in 1..Len(a) : a[k] = b[k]
    \/ \E k \in 1..Min(Len(a), Len(b)) :
           /\ \A l \in 1..(k - 1) : a[l] = b[l]
           /\ a[k] < b[k]

\* tests::suffixes: all the non-empty suffixes
suffixes(bytes) == { Slice(bytes, i, Len(bytes)) : i \in 0..(Len(bytes) - 1) }

\* tests::naive_maximal_suffix_forward: sort the suffixes, take the last
naive_maximal_suffix_forward(bytes) ==
    CHOOSE s \in suffixes(bytes) : \A t \in suffixes(bytes) : LexLeq(t, s)

\* Vec::reverse
Reversed(s) == [k \in 1..Len(s) |-> s[Len(s) + 1 - k]]

\* tests::naive_maximal_suffix_reverse
naive_maximal_suffix_reverse(bytes) ==
    Reversed(naive_maximal_suffix_forward(Reversed(bytes)))

\* tests::get_suffix_forward, the byte string
get_suffix_forward(bytes, kind) ==
    Slice(bytes, SuffixForward(bytes, kind).pos, Len(bytes))

\* tests::get_suffix_reverse, the byte string
get_suffix_reverse(bytes, kind) ==
    Slice(bytes, 0, SuffixReverse(bytes, kind).pos)

\* C11: for a non-empty needle, the suffix that Suffix::forward extracts with
\* kind Maximal is the lexicographically greatest non-empty suffix of it.
C11_ForwardMaximalOracle ==
    (Built /\ Forward) =>
        get_suffix_forward(needle, "Maximal")
            = naive_maximal_suffix_forward(needle)

C11_Witness ==
    /\ Built
    /\ Forward
    /\ SuffixForward(needle, "Maximal").pos >= 3
    /\ SuffixForward(needle, "Maximal").period >= 2

\* C12: for a non-empty needle, the prefix that Suffix::reverse extracts with
\* kind Maximal is the reversal of the lexicographically greatest suffix of
\* the reversed needle.
C12_ReverseMaximalOracle ==
    (Built /\ op = "rfind") =>
        get_suffix_reverse(needle, "Maximal")
            = naive_maximal_suffix_reverse(needle)

C12_Witness ==
    /\ Built
    /\ op = "rfind"
    /\ SuffixReverse(needle, "Maximal").pos <= Len(needle) - 3
    /\ SuffixReverse(needle, "Maximal").period >= 2

\* the bytes of a string
Bytes(s) == { s[k] : k \in 1..Len(s) }

\* C13: the byteset of a searcher contains a byte b exactly when some byte
\* of the needle has the residue of b modulo 64; so it contains every byte of
\* the needle, and the byteset of the empty needle contains no byte.
C13_ByteSetMembership ==
    (pc # "new") =>
        /\ \A b \in 0..255 :
               ByteSetContains(tw.byteset, b)
                   <=> (\E n \in Bytes(needle) : n % 64 = b % 64)
        /\ \A n \in Bytes(needle) : ByteSetContains(tw.byteset, n)
        /\ Len(needle) = 0 => \A b \in 0..255 : ~ByteSetContains(tw.byteset, b)

\* a false positive: 65 is in the set of a needle that holds 1 and not 65
C13_Witness ==
    /\ pc # "new"
    /\ 1 \in Bytes(needle)
    /\ 65 \notin Bytes(needle)
    /\ ByteSetContains(tw.byteset, 65)
    /\ ~ByteSetContains(tw.byteset, 66)

InFwdLoop == pc \in {"find_small", "find_large"}

\* the value a forward loop returns when it runs on from (pos, mem)
\* without prefilter
RunFromHere ==
    IF pc = "find_small"
    THEN FindSmallRun(tw, needle, haystack, tw.shift.val, pos, mem)
    ELSE FindLargeRun(tw, needle, haystack, tw.shift.val, pos)

\* the same, in the state after the step
RunFromNext ==
    IF pc' = "find_small"
    THEN FindSmallRun(tw', needle', haystack', tw'.shift.val, pos', mem')
    ELSE FindLargeRun(tw', needle', haystack', tw'.shift.val, pos')

C14_Step ==
    /\ (pc = "find" /\ InFwdLoop') =>
           /\ prefilter' <=> (effective /\ Len(haystack) >
                                  Max(16, 2 * Len(needle)))
           /\ ~pre_invoked'
    /\ (InFwdLoop /\ ~(prefilter /\ effective)) =>
           /\ ~pre_invoked'
           /\ effective' = effective
           /\ prefilter' = prefilter
           /\ pc' = "done" => result' = RunFromHere
           /\ pc' # "done" => (pc' = pc /\ RunFromNext = RunFromHere)

\* C14: in a find_with call the loops are entered with the prefilter on
\* exactly when the state is effective and |haystack| > max(16, 2*|needle|);
\* from a pass of a forward loop that finds the prefilter off or its state
\* ineffective on, no pass calls the prefilter's find, the state stays
\* ineffective, and the call returns what the loop without prefilter returns
\* from that pass's pos and memory.
C14_PrefilterDisengaged == [][C14_Step]_vars

\* a find_with call that entered the loop with the prefilter on, lost the
\* effectiveness on the way and finished with a pass without prefilter
C14_Witness ==
    /\ op = "find"
    /\ pc = "done"
    /\ prefilter
    /\ ~effective
    /\ ~pre_invoked
    /\ pos >= 1
    /\ result >= 1

\* C15: the needle-byte against haystack-byte comparisons a call has made
\* in the Two-Way loops never exceed 2*N in a forward search and 3*N in a
\* reverse search (N = |haystack|), hence C*(m + N) with C = 3, whatever the
\* periods of needle and haystack and whatever the prefilter answers.
C15_LinearComparisons ==
    /\ Forward => cmps <= 2 * Len(haystack)
    /\ op = "rfind" => cmps <= 3 * Len(haystack)
    /\ cmps <= 3 * (Len(needle) + Len(haystack))

\* a finished small-period forward search that shifted by the period (the
\* memory is set) and paid more than one comparison for every haystack byte
C15_Witness ==
    /\ pc = "done"
    /\ Forward
    /\ IsSmall
    /\ Len(needle) >= 4
    /\ tw.shift.val >= 2
    /\ mem > 0
    /\ cmps > Len(haystack)

SuffixKinds == {"Minimal", "Maximal"}

\* C16: for a non-empty needle and both kinds, the period of Suffix::forward
\* is the smallest period of needle[pos..], the period of Suffix::reverse is
\* the smallest period of needle[..pos]; it is at least 1, at most the
\* length of that suffix, and at most the smallest period of the needle.
C16_SuffixPeriod ==
    /\ (Built /\ Forward) =>
           \A k \in SuffixKinds :
               LET s == SuffixForward(needle, k)
                   suf == get_suffix_forward(needle, k)
               IN  /\ s.period = SmallestPeriod(suf)
                   /\ 1 <= s.period
                   /\ s.period <= Len(suf)
                   /\ s.period <= SmallestPeriod(needle)
    /\ (Built /\ op = "rfind") =>
           \A k \in SuffixKinds :
               LET s == SuffixReverse(needle, k)
                   suf == get_suffix_reverse(needle, k)
               IN  /\ s.period = SmallestPeriod(suf)
                   /\ 1 <= s.period
                   /\ s.period <= Len(suf)
                   /\ s.period <= SmallestPeriod(needle)

\* a suffix that is not the whole needle, with a period of 2 or more that
\* is below the smallest period of the needle
C16_Witness ==
    /\ Built
    /\ Forward
    /\ SuffixForward(needle, "Minimal").pos >= 1
    /\ SuffixForward(needle, "Minimal").period >= 2
    /\ SuffixForward(needle, "Minimal").period < SmallestPeriod(needle)

\* x is a suffix of y
IsSuffixOf(x, y) ==
    /\ Len(x) <= Len(y)
    /\ \A k \in 1..Len(x) : x[k] = y[Len(y) - Len(x) + k]

\* the period lower bound Forward::new passes to Shift::forward: the period
\* of the suffix whose pos it stores
ForwardPeriodLowerBound ==
    LET min_suffix == SuffixForward(needle, "Minimal")
        max_suffix == SuffixForward(needle, "Maximal")
    IN  IF min_suffix.pos > max_suffix.pos
        THEN min_suffix.period ELSE max_suffix.period

\* C17 as claimed: when 2*c < m, the shift is Large{max(c, m-c)} whenever
\* v[0..p] is not a suffix of u, and Small{p} otherwise.
C17_LargeUnlessVSuffixOfU ==
    (Built /\ Forward /\ 2 * tw.critical_pos < Len(needle)) =>
        LET c == tw.critical_pos
            m == Len(needle)
            pl == ForwardPeriodLowerBound
            u == Slice(needle, 0, c)
            v == Slice(needle, c, m)
        IN  tw.shift = (IF ~IsSuffixOf(Slice(v, 0, pl), u)
                        THEN [kind |-> "Large", val |-> Max(c, m - c)]
                        ELSE [kind |-> "Small", val |-> pl])

\* C17 amended: when 2*c < m, the shift is Large{max(c, m-c)} whenever u is
\* not a suffix of v[0..p], and Small{p} otherwise.
C17_LargeUnlessUSuffixOfV ==
    (Built /\ Forward /\ 2 * tw.critical_pos < Len(needle)) =>
        LET c == tw.critical_pos
            m == Len(needle)
            pl == ForwardPeriodLowerBound
            u == Slice(needle, 0, c)
            v == Slice(needle, c, m)
        IN  tw.shift = (IF ~IsSuffixOf(u, Slice(v, 0, pl))
                        THEN [kind |-> "Large", val |-> Max(c, m - c)]
                        ELSE [kind |-> "Small", val |-> pl])

\* step 3 taken with a non-empty u and the Large outcome
C17_Witness ==
    /\ Built
    /\ Forward
    /\ tw.critical_pos >= 1
    /\ 2 * tw.critical_pos < Len(needle)
    /\ ~IsSmall
    /\ tw.shift.val = Len(needle) - tw.critical_pos

\* C18: when Forward::new or Reverse::new selects Large{shift} for a needle
\* of length m >= 1 with critical position c, shift = max(c, m - c),
\* shift >= ceil(m/2), and shift is at most the smallest period of the
\* needle.
C18_LargeShiftSafe ==
    (Built /\ ~IsSmall) =>
        /\ tw.shift.val = Max(tw.critical_pos, Len(needle) - tw.critical_pos)
        /\ 2 * tw.shift.val >= Len(needle)
        /\ tw.shift.val <= SmallestPeriod(needle)

\* a reverse searcher with a large shift below the needle's length
C18_Witness ==
    /\ Built
    /\ op = "rfind"
    /\ ~IsSmall
    /\ Len(needle) >= 4
    /\ tw.shift.val < SmallestPeriod(needle)
    /\ tw.shift.val = tw.critical_pos

\* C19: with |needle| >= 2 and |haystack| >= |needle|, in every state of
\* find_small_imp, find_large_imp, rfind_small_imp and rfind_large_imp the
\* pass about to run reads only haystack indices in [0, |haystack|) and
\* needle indices in [0, |needle|), and none of its subtractions (i -
\* critical_pos, pos - nlen, critical_pos - i + 1, pos -= period, pos -=
\* shift, needle.len() - period) goes below zero.
C19_IndexSafety ==
    /\ pc \in {"find_small", "find_large", "rfind_small", "rfind_large"} =>
           (Len(needle) >= 2 /\ Len(haystack) >= Len(needle))
    /\ InFwdLoop =>
           FindPassSafe(tw, needle, haystack, pc = "find_small", pos, mem,
                        prefilter /\ effective)
    /\ pc = "rfind_small" =>
           RfindPassSafe(tw, needle, haystack, pos,
                         Min(tw.critical_pos, mem), mem, tw.shift.val)
    /\ pc = "rfind_large" =>
           RfindPassSafe(tw, needle, haystack, pos,
                         tw.critical_pos, Len(needle), tw.shift.val)

\* a reverse small-period pass on the last window that can be tried,
\* reached by a period shift (the memory holds the period)
C19_Witness ==
    /\ pc = "rfind_small"
    /\ pos = Len(needle)
    /\ pos < Len(haystack)
    /\ mem = tw.shift.val
    /\ mem < Len(needle)

InRevLoop == pc \in {"rfind_small", "rfind_large"}

\* a pass of an outer loop that does not return
C20_Step ==
    /\ (InFwdLoop /\ pc' = pc) => pos' > pos
    /\ (InRevLoop /\ pc' = pc) => pos' < pos

\* C20: every pass of find_small_imp and find_large_imp that does not return
\* leaves pos strictly greater (also when the prefilter returns offset 0),
\* every pass of rfind_small_imp and rfind_large_imp that does not return
\* leaves pos strictly smaller, and every find call, every rfind call and
\* every entered loop eventually returns.
C20_TerminationByProgress ==
    /\ [][C20_Step]_vars
    /\ (op \in {"find", "rfind"} \/ InFwdLoop \/ InRevLoop) ~> (pc = "done")

\* a forward pass in which the prefilter was called and pos moved on by
\* exactly one byte
C20_Witness ==
    /\ pc = "find_small"
    /\ pre_invoked
    /\ pos = 1

\* find_small_imp run without prefilter stands at the top of its loop
SmallNoPre == pc = "find_small" /\ ~prefilter

\* the memory is 0 or |needle| - period, and the first `mem` bytes of the
\* needle are the haystack bytes from pos on
C21_Truthful ==
    SmallNoPre =>
        /\ mem \in {0, Len(needle) - tw.shift.val}
        /\ pos + mem <= Len(haystack)
        /\ \A k \in 0..(mem - 1) : B(needle, k) = B(haystack, pos + k)

\* the pass is a period shift: the byteset test passes, the right part
\* matches to its end, and the loop goes on
PeriodShiftPass ==
    /\ ByteSetContains(tw.byteset, B(haystack, pos + (Len(needle) - 1)))
    /\ RightScan(needle, haystack, pos, Max(tw.critical_pos, mem))
           = Len(needle)

C21_Step ==
    (SmallNoPre /\ pc' = "find_small") =>
        IF PeriodShiftPass
        THEN /\ pos' = pos + tw.shift.val
             /\ mem' = Len(needle) - tw.shift.val
        ELSE mem' = 0

\* C21: at the top of every pass of find_small_imp run without prefilter the
\* memory `shift` is 0 or |needle| - period and needle[0..shift) equals
\* haystack[pos..pos+shift); a pass that goes on sets the memory to
\* |needle| - period when it is a period shift, and to 0 when it is a byteset
\* skip or a mismatch in the right part.
C21_MemoryTruthful == [](C21_Truthful) /\ [][C21_Step]_vars

\* a pass about to run on a whole window with a memory of two bytes or more
C21_Witness ==
    /\ SmallNoPre
    /\ mem >= 2
    /\ pos + Len(needle) <= Len(haystack)
    /\ tw.critical_pos >= 1

====
